---- MODULE Spec2Model ----
(***************************************************************************)
(* Model of src/components/compound-interest-calculator.tsx.               *)
(*                                                                         *)
(* Two specifications share this module.                                   *)
(*   SimSpec  runs calculateCompoundInterest one loop iteration at a time  *)
(*            on a parameter set drawn from SimParams.                     *)
(*   Spec     is the component: its six useState cells, the event handlers *)
(*            and the effect that recomputes the two result series.        *)
(*                                                                         *)
(* Numbers.  Money amounts of the parameters are integers in mills         *)
(* (1/1000 of a currency unit), so that amounts below one cent exist.      *)
(* The running values currentValue and totalInvested are exact rationals   *)
(* <<n, d>> in cents.  The emitted fields (the results of toFixed(2)) are  *)
(* integers in cents.  Binary floating point representation error is not   *)
(* modelled: toFixed(2) is applied to the exact decimal value.             *)
(***************************************************************************)
EXTENDS Integers, Sequences, FiniteSets, TLC

VARIABLES params1, params2, results1, results2, selectedPoint, isComparing,
          pending, events,
          simParams, year, currentValue, totalInvested, results, pc

uiVars  == <<params1, params2, results1, results2, selectedPoint, isComparing,
             pending, events>>
simVars == <<simParams, year, currentValue, totalInvested, results, pc>>
vars    == <<params1, params2, results1, results2, selectedPoint, isComparing,
             pending, events,
             simParams, year, currentValue, totalInvested, results, pc>>

(***************************************************************************)
(* Bounds.                                                                 *)
(***************************************************************************)
\* Longest simulation at a non-zero rate of return (the rationals stay
\* within TLC's integers up to five years of the default scenario).
MaxYears == 3
\* Longest simulation at rate 0, where every balance is a whole number of
\* mills; long enough for the x axis to get a second and a third tick.
MaxTickYears == 10
\* Number of user events (handler invocations) explored from the initial state.
MaxEvents == 3

(***************************************************************************)
(* Exact rational arithmetic, in cents.                                    *)
(***************************************************************************)
Abs(x) == IF x < 0 THEN -x ELSE x

Max(a, b) == IF a >= b THEN a ELSE b

RECURSIVE Gcd(_, _)
Gcd(a, b) == IF b = 0 THEN a ELSE Gcd(b, a % b)

\* the rational n/d in lowest terms with a positive denominator
Rat(n, d) ==
    LET s == IF d < 0 THEN -1 ELSE 1
        g == Gcd(Abs(n), Abs(d))
    IN  <<(s * n) \div g, (s * d) \div g>>

RAdd(a, b) == Rat(a[1] * b[2] + b[1] * a[2], a[2] * b[2])

RSub(a, b) == Rat(a[1] * b[2] - b[1] * a[2], a[2] * b[2])

RMul(a, b) == Rat(a[1] * b[1], a[2] * b[2])

\* a parameter amount in mills, as a rational number of cents
Mills(m) == Rat(m, 10)

(***************************************************************************)
(* calculateCompoundInterest (lines 27-56).                                *)
(***************************************************************************)
\* Number(x.toFixed(2)): the integer number of cents nearest to x; toFixed
\* takes the larger n of two equally near ones, and handles x < 0 as -(-x).
ToFixed1(x) ==
    LET n == x[1]
        d == x[2]
    IN  IF n >= 0 THEN 10 * ((n + 5 * d) \div (10 * d))
                  ELSE -(10 * ((5 * d - n) \div (10 * d)))

ToFixed2(x) ==
    LET n == x[1]
        d == x[2]
    IN  IF n >= 0 THEN (2 * n + d) \div (2 * d)
                  ELSE -((d - 2 * n) \div (2 * d))

frequencyMultiplier(incrementalFrequency) ==
    IF incrementalFrequency = "monthly" THEN 12
    ELSE IF incrementalFrequency = "quarterly" THEN 4 ELSE 1

\* incrementalAddition * frequencyMultiplier, in cents
Contribution(p) ==
    Mills(p.incrementalAddition * frequencyMultiplier(p.incrementalFrequency))

\* 1 + rateOfReturn / 100
GrowthFactor(p) == Rat(100 + p.rateOfReturn, 100)

\* the loop condition of line 42
LoopCondStrict(y, years) == y < years

LoopCond(y, years) == y <= years

\* lines 43-44: the balance after one more year
NextValueContributeFirst(cv, p) == RMul(RAdd(cv, Contribution(p)), GrowthFactor(p))

NextValueRoundCarry(cv, p) ==
    <<ToFixed2(RAdd(RMul(cv, GrowthFactor(p)), Contribution(p))), 1>>

NextValue(cv, p) == RAdd(RMul(cv, GrowthFactor(p)), Contribution(p))

\* line 45: the amount paid in after one more year
NextInvestedWithdraw(ti, p) == RSub(ti, Contribution(p))

NextInvested(ti, p) == RAdd(ti, Contribution(p))

\* line 51: the gained field
GainedCoarse(cv, ti) == ToFixed1(RSub(cv, ti))

Gained(cv, ti) == ToFixed2(RSub(cv, ti))

\* lines 47-52: the record pushed for one year
Entry(y, cv, ti) ==
    [year |-> y, totalValue |-> ToFixed2(cv), invested |-> ToFixed2(ti),
     gained |-> Gained(cv, ti)]

RECURSIVE Loop(_, _, _, _, _)
Loop(p, y, cv, ti, res) ==
    IF LoopCond(y, p.years)
    THEN LET cv2 == NextValue(cv, p)
             ti2 == NextInvested(ti, p)
         IN  Loop(p, y + 1, cv2, ti2, Append(res, Entry(y, cv2, ti2)))
    ELSE res

calculateCompoundInterest(p) ==
    Loop(p, 1, Mills(p.startingAmount), Mills(p.startingAmount), <<>>)

(***************************************************************************)
(* SimSpec: one call of calculateCompoundInterest, one iteration a step.   *)
(***************************************************************************)
Frequencies == {"monthly", "quarterly", "yearly"}

SimRates == {-50, 10, 100}

\* small scenarios; amounts in mills: 0.006, 0.01 and 1.03 to start with,
\* nothing or 0.10 a period
SmallParams ==
    [startingAmount : {6, 10, 1030}, rateOfReturn : SimRates,
     incrementalAddition : {0, 100}, incrementalFrequency : Frequencies,
     years : (-1) .. MaxYears]

\* scenarios around the component's default one (lines 60-63): 100 to start
\* with; 505.75 or nothing a period, or 1.00 withdrawn a period
DefaultLikeParams ==
    [startingAmount : {100000}, rateOfReturn : SimRates,
     incrementalAddition : {-1000, 0, 505750}, incrementalFrequency : Frequencies,
     years : (-1) .. MaxYears]

SimParams == SmallParams \cup DefaultLikeParams

\* the state of the component while SimSpec runs, and of the loop while
\* Spec runs
Null == <<>>

Some(x) == <<x>>

IdleParams ==
    [startingAmount |-> 0, rateOfReturn |-> 0, incrementalAddition |-> 0,
     incrementalFrequency |-> "yearly", years |-> 0]

UiIdle ==
    /\ params1 = IdleParams
    /\ params2 = Null
    /\ results1 = <<>>
    /\ results2 = <<>>
    /\ selectedPoint = Null
    /\ isComparing = FALSE
    /\ pending = FALSE
    /\ events = 0

SimIdle ==
    /\ simParams = IdleParams
    /\ year = 0
    /\ currentValue = <<0, 1>>
    /\ totalInvested = <<0, 1>>
    /\ results = <<>>
    /\ pc = "idle"

\* lines 34-36 and the loop initialiser of line 42
SimInit ==
    /\ simParams \in SimParams
    /\ year = 1
    /\ currentValue = Mills(simParams.startingAmount)
    /\ totalInvested = Mills(simParams.startingAmount)
    /\ results = <<>>
    /\ pc = "loop"
    /\ UiIdle

\* lines 42-53: one iteration
LoopBody ==
    /\ pc = "loop"
    /\ LoopCond(year, simParams.years)
    /\ currentValue' = NextValue(currentValue, simParams)
    /\ totalInvested' = NextInvested(totalInvested, simParams)
    /\ results' = Append(results, Entry(year, currentValue', totalInvested'))
    /\ year' = year + 1
    /\ UNCHANGED <<simParams, pc>>
    /\ UNCHANGED uiVars

\* line 55: the loop condition fails and the function returns
LoopExit ==
    /\ pc = "loop"
    /\ ~LoopCond(year, simParams.years)
    /\ pc' = "done"
    /\ UNCHANGED <<simParams, year, currentValue, totalInvested, results>>
    /\ UNCHANGED uiVars

SimNext == LoopBody \/ LoopExit

SimSpec == SimInit /\ [][SimNext]_vars

(***************************************************************************)
(* Spec: the component CompoundInterestCalculatorComponent (lines 58-408). *)
(* A nullable cell holds Null or Some(value).  pending says that a render  *)
(* changed params1, params2 or isComparing and the effect of lines 97-99   *)
(* has not run yet; React runs it before it handles the next event.        *)
(***************************************************************************)
\* values typed into the number inputs (amounts in mills)
InputValues(paramKey) ==
    CASE paramKey = "startingAmount" -> {0, 100000}
      [] paramKey = "rateOfReturn" -> {0, 10}
      [] paramKey = "incrementalAddition" -> {0, 505750}
      [] paramKey = "years" -> 0 .. MaxTickYears

NumericKeys == {"startingAmount", "rateOfReturn", "incrementalAddition", "years"}

\* the scenarios the model simulates: any rate up to MaxYears, rate 0 beyond
Computable(p) == p.years <= MaxYears \/ p.rateOfReturn = 0

\* lines 59-72; the default years: 30 is cut down to MaxYears
Init ==
    /\ params1 = [startingAmount |-> 100000, rateOfReturn |-> 10,
                  incrementalAddition |-> 505750, incrementalFrequency |-> "monthly",
                  years |-> MaxYears]
    /\ params2 = Null
    /\ results1 = <<>>
    /\ results2 = <<>>
    /\ selectedPoint = Null
    /\ isComparing = FALSE
    /\ pending = TRUE
    /\ events = 0
    /\ SimIdle

\* lines 74-79 run by the effect of lines 97-99
calculateResults ==
    /\ pending
    /\ results1' = calculateCompoundInterest(params1)
    /\ results2' = IF isComparing /\ params2 # Null
                   THEN calculateCompoundInterest(params2[1])
                   ELSE results2
    /\ pending' = FALSE
    /\ UNCHANGED <<params1, params2, selectedPoint, isComparing, events>>
    /\ UNCHANGED simVars

\* lines 81-84; the Compare button is rendered when not comparing (line 299)
handleCompare ==
    /\ ~pending
    /\ events < MaxEvents
    /\ ~isComparing
    /\ isComparing' = TRUE
    /\ params2' = Some(params1)
    /\ pending' = TRUE
    /\ events' = events + 1
    /\ UNCHANGED <<params1, results1, results2, selectedPoint>>
    /\ UNCHANGED simVars

\* lines 86-90; the Remove Comparison button is rendered when comparing
handleRemoveComparison ==
    /\ ~pending
    /\ events < MaxEvents
    /\ isComparing
    /\ isComparing' = FALSE
    /\ params2' = Null
    /\ results2' = <<>>
    /\ pending' = TRUE
    /\ events' = events + 1
    /\ UNCHANGED <<params1, results1, selectedPoint>>
    /\ UNCHANGED simVars

\* results[i]?.totalValue || null (lines 105-106): null beyond the series
\* and for a falsy totalValue
ValueOrNull(res, i) ==
    IF i <= Len(res) /\ res[i].totalValue # 0 THEN Some(res[i].totalValue) ELSE Null

\* lines 101-108
chartData ==
    LET maxYears == Max(Len(results1), Len(results2))
    IN  [i \in 1 .. maxYears |->
            [year |-> i, totalValue1 |-> ValueOrNull(results1, i),
             totalValue2 |-> ValueOrNull(results2, i)]]

\* the chart is rendered when results1 is not empty (line 313); a line has
\* a dot to click on for each row where its dataKey is not null, and the
\* second line is rendered when comparing (line 355)
ActivePayloads ==
    IF Len(results1) = 0 THEN {}
    ELSE {chartData[i] : i \in {j \in 1 .. Len(chartData) :
              \/ chartData[j].totalValue1 # Null
              \/ isComparing /\ chartData[j].totalValue2 # Null}}

\* lines 93-95; data.payload is the row of the chart's data under the dot
handlePointClick(payload) ==
    /\ ~pending
    /\ events < MaxEvents
    /\ selectedPoint' = Some(payload)
    /\ events' = events + 1
    /\ UNCHANGED <<params1, params2, results1, results2, isComparing, pending>>
    /\ UNCHANGED simVars

\* lines 110-117, with value the number of line 111; the inputs of
\* calculator 2 are rendered when comparing (line 214)
handleInputChangeLinked(value, paramKey, calculatorNum) ==
    /\ ~pending
    /\ events < MaxEvents
    /\ calculatorNum = 2 => isComparing
    /\ params1' = [params1 EXCEPT ![paramKey] = value]
    /\ params2' = IF params2 # Null
                  THEN Some([params2[1] EXCEPT ![paramKey] = value])
                  ELSE params2
    /\ Computable(params1')
    /\ params2' # Null => Computable(params2'[1])
    /\ pending' = TRUE
    /\ events' = events + 1
    /\ UNCHANGED <<results1, results2, selectedPoint, isComparing>>
    /\ UNCHANGED simVars

handleInputChange(value, paramKey, calculatorNum) ==
    /\ ~pending
    /\ events < MaxEvents
    /\ calculatorNum = 2 => isComparing
    /\ IF calculatorNum = 1
       THEN /\ params1' = [params1 EXCEPT ![paramKey] = value]
            /\ Computable(params1')
            /\ UNCHANGED params2
       ELSE /\ params2' = IF params2 # Null
                          THEN Some([params2[1] EXCEPT ![paramKey] = value])
                          ELSE params2
            /\ params2' # Null => Computable(params2'[1])
            /\ UNCHANGED params1
    /\ pending' = TRUE
    /\ events' = events + 1
    /\ UNCHANGED <<results1, results2, selectedPoint, isComparing>>
    /\ UNCHANGED simVars

\* the onValueChange handlers of the two frequency selects (lines 190, 257)
onValueChange(value, calculatorNum) ==
    /\ ~pending
    /\ events < MaxEvents
    /\ calculatorNum = 2 => isComparing
    /\ IF calculatorNum = 1
       THEN /\ params1' = [params1 EXCEPT !.incrementalFrequency = value]
            /\ UNCHANGED params2
       ELSE /\ params2' = IF params2 # Null
                          THEN Some([params2[1] EXCEPT !.incrementalFrequency = value])
                          ELSE Null
            /\ UNCHANGED params1
    /\ pending' = TRUE
    /\ events' = events + 1
    /\ UNCHANGED <<results1, results2, selectedPoint, isComparing>>
    /\ UNCHANGED simVars

\* lines 119-122; Array.from takes a negative length as 0
getXAxisTicksFirstOnly ==
    LET maxYears == Max(params1.years, 0)
    IN  [i \in 1 .. Max(0, (maxYears \div 5) + 1) |-> (i - 1) * 5]

getXAxisTicks ==
    LET years2 == IF params2 # Null /\ params2[1].years # 0 THEN params2[1].years ELSE 0
        maxYears == Max(params1.years, years2)
    IN  [i \in 1 .. Max(0, (maxYears \div 5) + 1) |-> (i - 1) * 5]

\* obj.key of a JavaScript object: Null (undefined) when obj has no such key
PropertyOf(obj, key) == IF key \in DOMAIN obj THEN Some(obj[key]) ELSE Null

\* lines 394 and 399: selectedPoint.totalValue?.toLocaleString() ?? 'N/A',
\* as Some(number) or Null for 'N/A'
detailCalculator1 == PropertyOf(selectedPoint[1], "totalValue")

detailCalculator2 == PropertyOf(selectedPoint[1], "totalValue")

Next ==
    \/ calculateResults
    \/ handleCompare
    \/ handleRemoveComparison
    \/ \E payload \in ActivePayloads : handlePointClick(payload)
    \/ \E paramKey \in NumericKeys, calculatorNum \in {1, 2} :
         \E value \in InputValues(paramKey) :
            handleInputChange(value, paramKey, calculatorNum)
    \/ \E value \in Frequencies, calculatorNum \in {1, 2} :
         onValueChange(value, calculatorNum)

Spec == Init /\ [][Next]_vars

(***************************************************************************)
(* Claims about calculateCompoundInterest, checked under SimSpec.          *)
(***************************************************************************)
\* the multiplier and the exact quantities as the specification words them
ClaimMultiplier(f) ==
    CASE f = "monthly" -> 12 [] f = "quarterly" -> 4 [] f = "yearly" -> 1

ClaimAdded(p) == <<p.incrementalAddition * ClaimMultiplier(p.incrementalFrequency), 10>>

ClaimFactor(p) == <<100 + p.rateOfReturn, 100>>

\* the balance after y years when nothing is ever rounded
RECURSIVE ExactBalance(_, _)
ExactBalance(p, y) ==
    IF y = 0 THEN <<p.startingAmount, 10>>
    ELSE RAdd(RMul(ExactBalance(p, y - 1), ClaimFactor(p)), ClaimAdded(p))

ExampleParams ==
    [startingAmount |-> 100000, rateOfReturn |-> 10, incrementalAddition |-> 505750,
     incrementalFrequency |-> "monthly", years |-> 1]

\* C1: the returned series has exactly years entries when years >= 1 and is
\* empty when years < 1, and the entry at 0-based position i has year i + 1
\* (position i + 1 of the 1-based sequence has year i + 1).
C1_LengthAndYears ==
    pc = "done" =>
        /\ Len(results) = (IF simParams.years >= 1 THEN simParams.years ELSE 0)
        /\ \A i \in 1 .. Len(results) : results[i].year = i

C1_Witness ==
    /\ pc = "done"
    /\ simParams.years >= 2
    /\ Len(results) = simParams.years
    /\ results[Len(results)].year = simParams.years

\* C2: every year the growth factor is applied to the balance before the
\* year's contributions are added, and the contributions earn no growth that
\* year; a 1-year run returns totalValue = round2(start * (1 + rate/100) +
\* addition * multiplier) and invested = round2(start + addition * multiplier);
\* {100, 10%, 505.75, monthly, 1 year} gives 6179.00, 6169.00 and 10.00.
C2_OneYear ==
    (pc = "done" /\ simParams.years = 1) =>
        /\ Len(results) = 1
        /\ results[1].totalValue =
             ToFixed2(RAdd(RMul(<<simParams.startingAmount, 10>>, ClaimFactor(simParams)),
                           ClaimAdded(simParams)))
        /\ results[1].invested =
             ToFixed2(RAdd(<<simParams.startingAmount, 10>>, ClaimAdded(simParams)))
        /\ simParams = ExampleParams =>
             results = <<[year |-> 1, totalValue |-> 617900, invested |-> 616900,
                          gained |-> 1000]>>

\* C2, whole: the 1-year results above hold in every state, and every
\* iteration takes the balance to balance * (1 + rate/100) + addition * multiplier.
C2_GrowthBeforeContribution ==
    /\ []C2_OneYear
    /\ [][year' = year + 1 =>
            currentValue' = RAdd(RMul(currentValue, ClaimFactor(simParams)),
                                 ClaimAdded(simParams))]_vars

C2_Witness ==
    /\ pc = "done"
    /\ simParams = ExampleParams
    /\ results[1].totalValue = 617900

\* C3 as stated: in every entry gained = totalValue - invested exactly.
C3_GainedIsDifference ==
    \A i \in 1 .. Len(results) :
        results[i].gained = results[i].totalValue - results[i].invested

\* C3 amended: gained is the rounding of the unrounded difference, so in
\* every entry it is within one cent of totalValue - invested.
C3_GainedWithinOneCent ==
    \A i \in 1 .. Len(results) :
        Abs(results[i].gained - (results[i].totalValue - results[i].invested)) <= 1

C3_Witness ==
    \E i \in 1 .. Len(results) :
        Abs(results[i].gained - (results[i].totalValue - results[i].invested)) = 1

\* C4 as stated: invested never decreases from one entry to the next,
\* whatever the parameters (a negative incrementalAddition included).
C4_InvestedNonDecreasing ==
    \A i \in 1 .. Len(results) - 1 : results[i].invested <= results[i + 1].invested

\* C4 amended: invested never decreases from one entry to the next when
\* incrementalAddition >= 0.
C4_InvestedNonDecreasingNonNegative ==
    simParams.incrementalAddition >= 0 => C4_InvestedNonDecreasing

C4_Witness ==
    /\ simParams.incrementalAddition > 0
    /\ Len(results) >= 2
    /\ results[1].invested < results[2].invested

\* the total the next year would show if the emitted, rounded total were
\* the balance carried forward
CarriedFromRounded(p, i) ==
    ToFixed2(RAdd(RMul(<<results[i].totalValue, 1>>, ClaimFactor(p)), ClaimAdded(p)))

\* C10 as stated: the balance year y+1 grows from is the rounded totalValue
\* emitted for year y.
C10_RoundAndCarry ==
    \A i \in 1 .. Len(results) - 1 :
        results[i + 1].totalValue = CarriedFromRounded(simParams, i)

\* C10 amended: the balance carried from year to year is never rounded;
\* the totalValue of year y is the rounding of the exact balance after y
\* years, so it is off by at most half a cent whatever y is.
C10_CarryUnrounded ==
    \A i \in 1 .. Len(results) :
        results[i].totalValue = ToFixed2(ExactBalance(simParams, i))

C10_Witness ==
    /\ Len(results) >= 2
    /\ results[2].totalValue = ToFixed2(ExactBalance(simParams, 2))
    /\ results[2].totalValue # CarriedFromRounded(simParams, 1)

(***************************************************************************)
(* Claims about the component, checked under Spec.                         *)
(***************************************************************************)
\* the entry of a series at a year, Null when the series does not reach it
Resolve(res, y) == IF y \in 1 .. Len(res) THEN Some(res[y].totalValue) ELSE Null

\* C5: the merge of the two series (the second empty when comparison is
\* disabled) has max(lenA, lenB) entries with years 1..max, and a scenario's
\* value for year N is absent if and only if N exceeds that scenario's
\* series length, whatever its totalValue (0 included).
C5_MergeAbsentOnlyBeyond ==
    LET m == Max(Len(results1), Len(results2))
    IN  /\ ~isComparing => results2 = <<>>
        /\ Len(chartData) = m
        /\ \A n \in 1 .. m :
              /\ chartData[n].year = n
              /\ chartData[n].totalValue1 = Null <=> n > Len(results1)
              /\ chartData[n].totalValue2 = Null <=> n > Len(results2)

\* C6: a step that disables comparison leaves params2 absent, results2
\* empty and no point selected.
C6_DisableClearsSelection ==
    [][(isComparing /\ ~isComparing') =>
          (params2' = Null /\ results2' = <<>> /\ selectedPoint' = Null)]_vars

\* C7: once the series are recomputed, the detail shown for calculator 1 is
\* the current entry of results1 at the selected year (not available if
\* results1 does not reach it), and when comparing the detail shown for
\* calculator 2 is the current entry of results2 at that year.
C7_DetailResolvedAtRead ==
    (selectedPoint # Null /\ ~pending) =>
        /\ detailCalculator1 = Resolve(results1, selectedPoint[1].year)
        /\ isComparing => detailCalculator2 = Resolve(results2, selectedPoint[1].year)

\* C8: enabling comparison makes params2 a copy of params1; afterwards a
\* step that changes params1 leaves params2 alone and a step that changes
\* params2 leaves params1 alone; and once the effect has run while
\* comparing, results2 is the simulation of params2.
C8_OneShotCopy ==
    /\ [][(~isComparing /\ isComparing') => params2' = Some(params1)]_vars
    /\ [][(params1' # params1) => params2' = params2]_vars
    /\ [][(params2' # params2) => params1' = params1]_vars
    /\ [](isComparing /\ ~pending =>
             /\ params2 # Null
             /\ results2 = calculateCompoundInterest(params2[1]))

C8_Witness ==
    /\ isComparing
    /\ ~pending
    /\ params2 # Some(params1)
    /\ results2 # results1
    /\ results2 = calculateCompoundInterest(params2[1])

\* C9: the ticks are 0, 5, 10, ... up to the largest multiple of 5 at or
\* below maxYears = max(A.years, B.years or 0 when B is absent), that is
\* floor(maxYears / 5) + 1 of them, the i-th (from 0) being i * 5.
C9_Ticks ==
    LET maxYears == Max(params1.years, IF params2 = Null THEN 0 ELSE params2[1].years)
        ticks == getXAxisTicks
    IN  /\ Len(ticks) = (maxYears \div 5) + 1
        /\ \A i \in 1 .. Len(ticks) : ticks[i] = (i - 1) * 5
        /\ ticks[Len(ticks)] <= maxYears
        /\ maxYears < ticks[Len(ticks)] + 5
        /\ maxYears = 7 => ticks = <<0, 5>>
        /\ maxYears = 10 => ticks = <<0, 5, 10>>

C9_Witness ==
    /\ params2 # Null
    /\ params2[1].years = 7
    /\ params1.years < 5
    /\ getXAxisTicks = <<0, 5>>

====
